---------------------------- MODULE Spec2Model ----------------------------
(***************************************************************************)
(* Model of the chapointdat reader (package chapointdat): the decoding of  *)
(* one line of a Companies House appointments snapshot (Reader.line,       *)
(* headerRow, companyRow, personRow) and the per-entry pipeline of         *)
(* Reader.Extract (the scanning loop, the worker goroutines, lineChan and  *)
(* doneChan, the archive and the entry readers).  Spec explores Extract;   *)
(* LineSpec explores one call of Reader.line on every sample line.         *)
(*                                                                         *)
(* A []byte is a sequence of one-character strings.  A Go slice can be     *)
(* re-sliced up to its capacity, so a line travels with its `room`: the    *)
(* bytes of the backing array that follow the line.  An index l[k] needs   *)
(* k < len(l); a slice l[lo:hi] needs lo <= hi <= cap(l).                  *)
(***************************************************************************)
EXTENDS Integers, Sequences, FiniteSets, TLC

\* ------------------------------------------------------------ constants
companyRecordType == "1"
personRecordType == "2"
snapshotHeaderIdentifier == <<"D","D","D","D","S","N","A","P">>
trailerRecordIdentifier == <<"9","9","9","9","9","9","9","9">>

\* ------------------------------------------------------------ bounds
MaxConcurrency == 3
MaxEntries == 2
MaxLines == 3

\* ------------------------------------------------------------ bytes
Digits == <<"0","1","2","3","4","5","6","7","8","9">>

IsDigit(c) == \E d \in 1..10 : Digits[d] = c

DigitVal(c) == (CHOOSE d \in 1..10 : Digits[d] = c) - 1

\* unicode.IsSpace on the ASCII range
IsSpace(c) == c \in {" ", "\t", "\n", "\r", "\f", "VT"}

NUL == "NUL"

Zeros(n) == [k \in 1..n |-> NUL]

\* l[k] of Go (0-based): panics unless k < len(l)
IndexOK(l, k) == k < Len(l)

Index(l, k) == l[k + 1]

\* l[lo:hi] of Go (0-based, hi exclusive): panics unless lo <= hi <= cap(l)
SliceOK(l, room, lo, hi) == 0 <= lo /\ lo <= hi /\ hi <= Len(l) + Len(room)

Slice(l, room, lo, hi) == SubSeq(l \o room, lo + 1, hi)

\* strings.TrimSpace
TrimSpace(s) ==
    LET keep == {k \in 1..Len(s) : ~IsSpace(s[k])}
    IN  IF keep = {} THEN <<>>
        ELSE SubSeq(s, CHOOSE a \in keep : \A b \in keep : a <= b,
                       CHOOSE a \in keep : \A b \in keep : a >= b)

RECURSIVE DecVal(_)
DecVal(s) == IF s = <<>> THEN 0 ELSE 10 * DecVal(SubSeq(s, 1, Len(s) - 1)) + DigitVal(s[Len(s)])

\* strconv.Atoi on at most 8 bytes: an optional sign, then one or more
\* digits; a syntax error yields the value 0
AtoiDigits(s) == IF s # <<>> /\ s[1] \in {"+", "-"} THEN Tail(s) ELSE s

AtoiOK(s) == AtoiDigits(s) # <<>> /\ \A k \in 1..Len(AtoiDigits(s)) : IsDigit(AtoiDigits(s)[k])

Atoi(s) ==
    IF ~AtoiOK(s) THEN 0
    ELSE IF s[1] = "-" THEN 0 - DecVal(AtoiDigits(s)) ELSE DecVal(AtoiDigits(s))

\* strings.Split(s, "<"): one part more than there are separators
RECURSIVE Split(_, _)
Split(s, sep) ==
    LET hits == {k \in 1..Len(s) : s[k] = sep}
    IN  IF hits = {} THEN <<s>>
        ELSE LET k == CHOOSE a \in hits : \A b \in hits : a <= b
             IN  <<SubSeq(s, 1, k - 1)>> \o Split(SubSeq(s, k + 1, Len(s)), sep)

\* time.Parse("20060102", s): eight digits, month 1..12, day within the month
IsLeap(y) == y % 4 = 0 /\ (y % 100 # 0 \/ y % 400 = 0)

DaysIn(m, y) ==
    IF m = 2 THEN (IF IsLeap(y) THEN 29 ELSE 28)
    ELSE IF m \in {4, 6, 9, 11} THEN 30 ELSE 31

ParseDateOK(s) ==
    /\ Len(s) = 8
    /\ \A k \in 1..8 : IsDigit(s[k])
    /\ LET y == DecVal(SubSeq(s, 1, 4))
           m == DecVal(SubSeq(s, 5, 6))
           d == DecVal(SubSeq(s, 7, 8))
       IN  m \in 1..12 /\ d >= 1 /\ d <= DaysIn(m, y)

ParseDate(s) ==
    [year |-> DecVal(SubSeq(s, 1, 4)), month |-> DecVal(SubSeq(s, 5, 6)),
     day |-> DecVal(SubSeq(s, 7, 8))]

HeaderLine ==
    <<"D","D","D","D","S","N","A","P","0","1","9","5","2","0","2","4","0","1","3","1">>

HeaderBadMarker ==
    <<"D","D","D","D","S","N","A","Q","0","1","9","5","2","0","2","4","0","1","3","1">>

HeaderBadRun ==
    <<"D","D","D","D","S","N","A","P","0","1","X","5","2","0","2","4","0","1","3","1">>

HeaderBadDate ==
    <<"D","D","D","D","S","N","A","P","0","1","9","5","2","0","2","4","0","2","3","1">>

Footer0 ==
    <<"9","9","9","9","9","9","9","9","0","0","0","0","0","0","0","0">>

Footer1 ==
    <<"9","9","9","9","9","9","9","9","0","0","0","0","0","0","0","1">>

Footer2 ==
    <<"9","9","9","9","9","9","9","9","0","0","0","0","0","0","0","2">>

Footer42 ==
    <<"9","9","9","9","9","9","9","9","0","0","0","0","0","0","4","2">>

FooterBadCount ==
    <<"9","9","9","9","9","9","9","9","0","0","0","0","0","0","X","1">>

CompanyWest ==
    <<"0","0","0","0","0","0","8","4","1","D"," "," "," "," "," "," "," "," "," "," "," "," ",
    " "," "," "," "," "," "," "," "," "," ","0","0","0","0","0","0","1","9","A","."," ","W","E",
    "S","T"," ","&"," ","P","A","R","T","N","E","R","S","<">>

CompanyReadme ==
    <<"0","4","6","3","8","1","9","1","C"," "," "," "," "," "," "," "," "," "," "," "," "," ",
    " "," "," "," "," "," "," "," "," ","0","0","1","4","0","0","3","9","I","N","T","E","R","N",
    "A","T","I","O","N","A","L"," ","B","E","E"," ","R","E","S","E","A","R","C","H"," ","A","S",
    "S","O","C","I","A","T","I","O","N","<">>

CompanyNoZero ==
    <<"4","6","3","8","1","9","1","C"," "," "," "," "," "," "," "," "," "," "," "," "," "," ",
    " "," "," "," "," "," "," "," ","0","0","1","4","0","0","3","9","I","N","T","E","R","N","A",
    "T","I","O","N","A","L"," ","B","E","E"," ","R","E","S","E","A","R","C","H"," ","A","S","S",
    "O","C","I","A","T","I","O","N","<">>

PersonReadme ==
    <<"0","4","6","3","8","1","9","2","2","0","1","0","2","4","4","0","7","9","4","0","0","0",
    "2"," "," "," "," "," "," "," "," ","1","9","9","1","0","9","1","5"," "," "," "," "," "," ",
    " "," ","N","P","2","5"," ","3","D","Z","1","9","4","5","0","9"," "," "," "," "," "," "," ",
    " "," "," ","0","0","9","3","M","R","<","H","A","N","S","<","K","J","A","E","R","S","G","A",
    "A","R","D","<","<","<","<","1"," ","A","G","I","N","C","O","U","R","T"," ","S","T","R","E",
    "E","T","<","<","M","O","N","M","O","U","T","H","<","<","W","A","L","E","S","<","M","A","R",
    "K","E","T","I","N","G"," ","D","I","R","E","C","T","O","R","<","D","A","N","I","S","H","<",
    "E","N","G","L","A","N","D","<">>

ZeroThenUnknown ==
    <<"0","4","6","3","8","1","9","X","C"," "," "," "," "," "," "," "," "," "," "," "," "," ",
    " "," "," "," "," "," "," "," "," ","0","0","1","4","0","0","3","9","I","N","T","E","R","N",
    "A","T","I","O","N","A","L"," ","B","E","E"," ","R","E","S","E","A","R","C","H"," ","A","S",
    "S","O","C","I","A","T","I","O","N","<">>

DoubleZero ==
    <<"0","0","6","3","8","1","9","1","C"," "," "," "," "," "," "," "," "," "," "," "," "," ",
    " "," "," "," "," "," "," "," "," ","0","0","1","4","0","0","3","9","I","N","T","E","R","N",
    "A","T","I","O","N","A","L"," ","B","E","E"," ","R","E","S","E","A","R","C","H"," ","A","S",
    "S","O","C","I","A","T","I","O","N","<">>

\* the README Person line with its leading zero restored: declared length
\* 0093, 14 subfields each ended by "<"
PersonFull ==
    <<"0","0","4","6","3","8","1","9","2","2","0","1","0","2","4","4","0","7","9","4","0","0",
    "0","2"," "," "," "," "," "," "," "," ","1","9","9","1","0","9","1","5"," "," "," "," "," ",
    " "," "," ","N","P","2","5"," ","3","D","Z","1","9","4","5","0","9"," "," "," "," "," "," ",
    " "," "," "," ","0","0","9","3","M","R","<","H","A","N","S","<","K","J","A","E","R","S","G",
    "A","A","R","D","<","<","<","<","1"," ","A","G","I","N","C","O","U","R","T"," ","S","T","R",
    "E","E","T","<","<","M","O","N","M","O","U","T","H","<","<","W","A","L","E","S","<","M","A",
    "R","K","E","T","I","N","G"," ","D","I","R","E","C","T","O","R","<","D","A","N","I","S","H",
    "<","E","N","G","L","A","N","D","<">>

\* a Person line whose variable section has 14 parts (no closing "<")
Person14 ==
    <<"0","0","4","6","3","8","1","9","2","2","0","1","0","2","4","4","0","7","9","4","0","0",
    "0","2"," "," "," "," "," "," "," "," ","1","9","9","1","0","9","1","5"," "," "," "," "," ",
    " "," "," ","N","P","2","5"," ","3","D","Z","1","9","4","5","0","9"," "," "," "," "," "," ",
    " "," "," "," ","0","0","9","2","M","R","<","H","A","N","S","<","K","J","A","E","R","S","G",
    "A","A","R","D","<","<","<","<","1"," ","A","G","I","N","C","O","U","R","T"," ","S","T","R",
    "E","E","T","<","<","M","O","N","M","O","U","T","H","<","<","W","A","L","E","S","<","M","A",
    "R","K","E","T","I","N","G"," ","D","I","R","E","C","T","O","R","<","D","A","N","I","S","H",
    "<","E","N","G","L","A","N","D">>

\* a Person line whose variable section has 13 parts
Person13 ==
    <<"0","0","4","6","3","8","1","9","2","2","0","1","0","2","4","4","0","7","9","4","0","0",
    "0","2"," "," "," "," "," "," "," "," ","1","9","9","1","0","9","1","5"," "," "," "," "," ",
    " "," "," ","N","P","2","5"," ","3","D","Z","1","9","4","5","0","9"," "," "," "," "," "," ",
    " "," "," "," ","0","0","8","4","M","R","<","H","A","N","S","<","K","J","A","E","R","S","G",
    "A","A","R","D","<","<","<","<","1"," ","A","G","I","N","C","O","U","R","T"," ","S","T","R",
    "E","E","T","<","<","M","O","N","M","O","U","T","H","<","<","W","A","L","E","S","<","M","A",
    "R","K","E","T","I","N","G"," ","D","I","R","E","C","T","O","R","<","D","A","N","I","S",
    "H">>

\* a Person line whose variable section has 3 parts
Person3 ==
    <<"0","0","4","6","3","8","1","9","2","2","0","1","0","2","4","4","0","7","9","4","0","0",
    "0","2"," "," "," "," "," "," "," "," ","1","9","9","1","0","9","1","5"," "," "," "," "," ",
    " "," "," ","N","P","2","5"," ","3","D","Z","1","9","4","5","0","9"," "," "," "," "," "," ",
    " "," "," "," ","0","0","2","1","M","R","<","H","A","N","S","<"," ","K","J","A","E","R","S",
    "G","A","A","R","D"," ">>

\* a Person line cut short: it declares 93 bytes and holds 83 after offset 76
PersonOverrun ==
    <<"0","0","4","6","3","8","1","9","2","2","0","1","0","2","4","4","0","7","9","4","0","0",
    "0","2"," "," "," "," "," "," "," "," ","1","9","9","1","0","9","1","5"," "," "," "," "," ",
    " "," "," ","N","P","2","5"," ","3","D","Z","1","9","4","5","0","9"," "," "," "," "," "," ",
    " "," "," "," ","0","0","9","3","M","R","<","H","A","N","S","<","K","J","A","E","R","S","G",
    "A","A","R","D","<","<","<","<","1"," ","A","G","I","N","C","O","U","R","T"," ","S","T","R",
    "E","E","T","<","<","M","O","N","M","O","U","T","H","<","<","W","A","L","E","S","<","M","A",
    "R","K","E","T","I","N","G"," ","D","I","R","E","C","T","O","R","<","D","A","N","I","S">>

\* a Company line cut short: it declares 19 bytes and holds 7 after offset 40
CompanyOverrun ==
    <<"0","0","0","0","0","0","8","4","1","D"," "," "," "," "," "," "," "," "," "," "," "," ",
    " "," "," "," "," "," "," "," "," "," ","0","0","0","0","0","0","1","9","A","."," ","W","E",
    "S","T">>

\* a Company line whose name is the delimiter alone (declared length 1)
CompanyOne ==
    <<"0","0","0","0","0","0","8","4","1","D"," "," "," "," "," "," "," "," "," "," "," "," ",
    " "," "," "," "," "," "," "," "," "," ","0","0","0","0","0","0","0","1","<">>

\* a Company line whose name-length field is no integer
CompanyBadLength ==
    <<"0","0","0","0","0","0","8","4","1","D"," "," "," "," "," "," "," "," "," "," "," "," ",
    " "," "," "," "," "," "," "," "," "," ","0","0","0","0","0","0","X","9","A","."," ","W","E",
    "S","T"," ","&"," ","P","A","R","T","N","E","R","S","<">>

\* a Company line whose name-length field is 0000
CompanyZeroLength ==
    <<"0","0","0","0","0","0","8","4","1","D"," "," "," "," "," "," "," "," "," "," "," "," ",
    " "," "," "," "," "," "," "," "," "," ","0","0","0","0","0","0","0","0","A","."," ","W","E",
    "S","T"," ","&"," ","P","A","R","T","N","E","R","S","<">>

\* a line of 7 bytes
ShortLine ==
    <<"0","4","6","3","8","1","9">>

\* the trailer identifier alone: 8 bytes
ShortTrailer ==
    <<"9","9","9","9","9","9","9","9">>

\* the line of Test_Line_InvalidCharacter: a Person line with the two bytes of
\* a non-ASCII character in its postcode, so that line[72:76] is "40 I"
PersonInvalidCharacter ==
    <<"1","0","1","2","2","2","0","5","2","3","0","1","2","0","7","1","1","5","4","0","0","0",
    "0","2"," ","2","0","1","6","0","4","1","3"," ","W","A","1","1"," ","R","L","xC3","x86","1",
    "9","7","9","0","8"," ","0","0","9","8","M","R","<","D","A","V","I","D","<","S","E","O","W",
    "<","<","<","<","8","4","0"," ","I","B","I","S"," ","C","O","U","R","T"," ","C","E","N","T",
    "R","E"," ","P","A","R","K","<","<","W","A","R","R","I","N","G","T","O","N","<","C","H","E",
    "S","H","I","R","E","<","E","N","G","L","A","N","D","<","D","I","R","E","C","T","O","R","<",
    "B","R","I","T","I","S","H","<","E","N","G","L","A","N","D","<">>

\* an empty line
EmptyLine == <<>>

\* a Person line with one leading zero whose length field is no integer
\* before the repair ("X93M") nor after it ("0X93")
PersonUnrepairable ==
    <<"0","4","6","3","8","1","9","2","2","0","1","0","2","4","4","0","7","9","4","0","0","0",
    "2"," "," "," "," "," "," "," "," ","1","9","9","1","0","9","1","5"," "," "," "," "," "," ",
    " "," ","N","P","2","5"," ","3","D","Z","1","9","4","5","0","9"," "," "," "," "," "," "," ",
    " "," "," ","0","X","9","3","M","R","<","H","A","N","S","<","K","J","A","E","R","S","G","A",
    "A","R","D","<","<","<","<","1"," ","A","G","I","N","C","O","U","R","T"," ","S","T","R","E",
    "E","T","<","<","M","O","N","M","O","U","T","H","<","<","W","A","L","E","S","<","M","A","R",
    "K","E","T","I","N","G"," ","D","I","R","E","C","T","O","R","<","D","A","N","I","S","H","<",
    "E","N","G","L","A","N","D","<">>

\* a Person line with two leading zeros whose length field is no integer
PersonDoubleZeroBad ==
    <<"0","0","4","6","3","8","1","9","2","2","0","1","0","2","4","4","0","7","9","4","0","0",
    "0","2"," "," "," "," "," "," "," "," ","1","9","9","1","0","9","1","5"," "," "," "," "," ",
    " "," "," ","N","P","2","5"," ","3","D","Z","1","9","4","5","0","9"," "," "," "," "," "," ",
    " "," "," "," ","0","X","9","3","M","R","<","H","A","N","S","<","K","J","A","E","R","S","G",
    "A","A","R","D","<","<","<","<","1"," ","A","G","I","N","C","O","U","R","T"," ","S","T","R",
    "E","E","T","<","<","M","O","N","M","O","U","T","H","<","<","W","A","L","E","S","<","M","A",
    "R","K","E","T","I","N","G"," ","D","I","R","E","C","T","O","R","<","D","A","N","I","S","H",
    "<","E","N","G","L","A","N","D","<">>

\* a line with one leading zero that fails classification and is the README
\* Person line once a "0" is prepended
ZeroThenPerson ==
    <<"0","4","6","3","8","1","9","2","X","0","1","0","2","4","4","0","7","9","4","0","0","0",
    "2"," "," "," "," "," "," "," "," ","1","9","9","1","0","9","1","5"," "," "," "," "," "," ",
    " "," ","N","P","2","5"," ","3","D","Z","1","9","4","5","0","9"," "," "," "," "," "," "," ",
    " "," "," ","0","0","9","3","M","R","<","H","A","N","S","<","K","J","A","E","R","S","G","A",
    "A","R","D","<","<","<","<","1"," ","A","G","I","N","C","O","U","R","T"," ","S","T","R","E",
    "E","T","<","<","M","O","N","M","O","U","T","H","<","<","W","A","L","E","S","<","M","A","R",
    "K","E","T","I","N","G"," ","D","I","R","E","C","T","O","R","<","D","A","N","I","S","H","<",
    "E","N","G","L","A","N","D","<">>

\* a line with one leading zero that fails classification and, once a "0" is
\* prepended, is a Person line whose length field is no integer ("0X93")
ZeroThenBadPerson ==
    <<"0","4","6","3","8","1","9","2","X","0","1","0","2","4","4","0","7","9","4","0","0","0",
    "2"," "," "," "," "," "," "," "," ","1","9","9","1","0","9","1","5"," "," "," "," "," "," ",
    " "," ","N","P","2","5"," ","3","D","Z","1","9","4","5","0","9"," "," "," "," "," "," "," ",
    " "," "," ","0","X","9","3","M","R","<","H","A","N","S","<","K","J","A","E","R","S","G","A",
    "A","R","D","<","<","<","<","1"," ","A","G","I","N","C","O","U","R","T"," ","S","T","R","E",
    "E","T","<","<","M","O","N","M","O","U","T","H","<","<","W","A","L","E","S","<","M","A","R",
    "K","E","T","I","N","G"," ","D","I","R","E","C","T","O","R","<","D","A","N","I","S","H","<",
    "E","N","G","L","A","N","D","<">>

\* ------------------------------------------------------------ errors
\* An error is the chain of its messages, outermost first (fmt.Errorf with
\* %w wraps), and the values formatted into the outermost message.
NoErr == [msg |-> <<>>, args |-> <<>>]

Err(m, a) == [msg |-> <<m>>, args |-> a]

Wrap(m, e) == [msg |-> <<m>> \o e.msg, args |-> e.args]

AtoiErr == Err("strconv.Atoi: invalid syntax", <<>>)

HandlerErr == Err("handler error", <<>>)

\* ------------------------------------------------------------ records
ZeroHeader == [Run |-> 0, ProdDate |-> [year |-> 1, month |-> 1, day |-> 1]]

ZeroCompany ==
    [CompanyNumber |-> <<>>, CompanyStatus |-> <<>>, NumberOfOfficers |-> <<>>,
     CompanyName |-> <<>>]

ZeroPerson ==
    [CompanyNumber |-> <<>>, AppDateOrigin |-> <<>>, AppointmentType |-> <<>>,
     PersonNumber |-> <<>>, CorporateIndicator |-> <<>>, AppointmentDate |-> <<>>,
     ResignationDate |-> <<>>, Postcode |-> <<>>, PartialDateOfBirth |-> <<>>,
     FullDateOfBirth |-> <<>>, Title |-> <<>>, Forenames |-> <<>>, Surname |-> <<>>,
     Honours |-> <<>>, CareOf |-> <<>>, PoBox |-> <<>>, AddressLine1 |-> <<>>,
     AddressLine2 |-> <<>>, PostTown |-> <<>>, County |-> <<>>, Country |-> <<>>,
     Occupation |-> <<>>, Nationality |-> <<>>, ResCountry |-> <<>>]

\* ------------------------------------------------------------ repair
\* the repair applied to every line, whatever its first byte
AlwaysRepair(l) == TRUE

\* the repair applied when the first byte is anything but "0"
FirstByteNotZero(l) == Index(l, 0) # "0"

\* line[0] == "0": a line that may have lost a leading zero
LeadingZero(l) == Index(l, 0) = "0"

\* the guard against a second repair taken for every line
NeverRepair(l) == TRUE

\* the guard against a second repair never taken
RepairAgain(l) == FALSE

\* the guard against a second repair looking at line[2]
ThirdZero(l) == Index(l, 2) = "0"

\* line[1] == "0": the line already starts with two zeros
SecondZero(l) == Index(l, 1) = "0"

\* append([]byte("0"), line...)
Prepend(l) == <<"0">> \o l

\* ------------------------------------------------------------ headerRow
headerRow(l, room) ==
    IF ~SliceOK(l, room, 0, 8) THEN [panic |-> TRUE, err |-> NoErr, h |-> ZeroHeader]
    ELSE IF Slice(l, room, 0, 8) # snapshotHeaderIdentifier
    THEN [panic |-> FALSE, h |-> ZeroHeader,
          err |-> Err("header line does not start with DDDDSNAP", <<>>)]
    ELSE IF ~SliceOK(l, room, 8, 12) THEN [panic |-> TRUE, err |-> NoErr, h |-> ZeroHeader]
    ELSE IF ~AtoiOK(Slice(l, room, 8, 12))
    THEN [panic |-> FALSE, h |-> ZeroHeader, err |-> Wrap("error reading run", AtoiErr)]
    ELSE IF ~SliceOK(l, room, 12, 20) THEN [panic |-> TRUE, err |-> NoErr, h |-> ZeroHeader]
    ELSE LET run == Atoi(Slice(l, room, 8, 12))
             d == Slice(l, room, 12, 20)
         IN  IF ParseDateOK(d)
             THEN [panic |-> FALSE, err |-> NoErr,
                   h |-> [Run |-> run, ProdDate |-> ParseDate(d)]]
             ELSE [panic |-> FALSE, err |-> Err("parsing time: cannot parse", <<>>),
                   h |-> [Run |-> run, ProdDate |-> ZeroHeader.ProdDate]]

\* ------------------------------------------------------------ companyRow
\* the fixed fields: line[0:8], line[8], line[9], line[32:36], line[36:40]
companyFixedOK(l, room) ==
    /\ SliceOK(l, room, 0, 8) /\ IndexOK(l, 8) /\ IndexOK(l, 9)
    /\ SliceOK(l, room, 32, 36) /\ SliceOK(l, room, 36, 40)

\* the overrun test left out: the name is sliced whatever its length
NameNeverOverruns(nameLength, l) == FALSE

\* nameLength+40 > len(line)
NameOverruns(nameLength, l) == nameLength + 40 > Len(l)

\* the name sliced with its closing delimiter
NameEndWithDelimiter(nameLength) == 40 + nameLength

\* the end of line[40 : 40+nameLength-1]
NameEnd(nameLength) == 40 + nameLength - 1

companyRow(l, room) ==
    IF ~companyFixedOK(l, room) THEN [panic |-> TRUE, err |-> NoErr, c |-> ZeroCompany]
    ELSE
    LET fixed == [CompanyNumber |-> TrimSpace(Slice(l, room, 0, 8)),
                  CompanyStatus |-> TrimSpace(<<Index(l, 9)>>),
                  NumberOfOfficers |-> TrimSpace(Slice(l, room, 32, 36)),
                  CompanyName |-> <<>>]
        field == TrimSpace(Slice(l, room, 36, 40))
        nameLength == Atoi(field)
        \* the Atoi result replaces the record-type error set above it
        err == IF AtoiOK(field) THEN NoErr ELSE Wrap("error reading name length", AtoiErr)
    IN  IF NameOverruns(nameLength, l) THEN [panic |-> FALSE, err |-> err, c |-> fixed]
        ELSE IF ~SliceOK(l, room, 40, NameEnd(nameLength))
        THEN [panic |-> TRUE, err |-> NoErr, c |-> ZeroCompany]
        ELSE [panic |-> FALSE, err |-> err,
              c |-> [fixed EXCEPT !.CompanyName =
                         TrimSpace(Slice(l, room, 40, NameEnd(nameLength)))]]

\* ------------------------------------------------------------ personRow
\* the fixed fields: line[0:8] .. line[72:76], with line[8], line[9], line[24]
personFixedOK(l, room) ==
    /\ SliceOK(l, room, 0, 8) /\ IndexOK(l, 8) /\ IndexOK(l, 9)
    /\ SliceOK(l, room, 10, 12) /\ SliceOK(l, room, 12, 24) /\ IndexOK(l, 24)
    /\ SliceOK(l, room, 32, 40) /\ SliceOK(l, room, 40, 48) /\ SliceOK(l, room, 48, 56)
    /\ SliceOK(l, room, 56, 64) /\ SliceOK(l, room, 64, 72) /\ SliceOK(l, room, 72, 76)

personFixed(l, room) ==
    [ZeroPerson EXCEPT
        !.CompanyNumber = TrimSpace(Slice(l, room, 0, 8)),
        !.AppDateOrigin = TrimSpace(<<Index(l, 9)>>),
        !.AppointmentType = TrimSpace(Slice(l, room, 10, 12)),
        !.PersonNumber = TrimSpace(Slice(l, room, 12, 24)),
        !.CorporateIndicator = TrimSpace(<<Index(l, 24)>>),
        !.AppointmentDate = TrimSpace(Slice(l, room, 32, 40)),
        !.ResignationDate = TrimSpace(Slice(l, room, 40, 48)),
        !.Postcode = TrimSpace(Slice(l, room, 48, 56)),
        !.PartialDateOfBirth = TrimSpace(Slice(l, room, 56, 64)),
        !.FullDateOfBirth = TrimSpace(Slice(l, room, 64, 72))]

\* data[k] trimmed when len(data) > k (k is 0-based), else the zero value
Part(data, k) == IF Len(data) > k THEN TrimSpace(data[k + 1]) ELSE <<>>

\* the residence country taken from every section of 14 parts or more
AtLeast14(data) == Len(data) >= 14

\* len(data) == 14
HasResCountry(data) == Len(data) = 14

personVariable(p, data) ==
    [p EXCEPT
        !.Title = Part(data, 0), !.Forenames = Part(data, 1), !.Surname = Part(data, 2),
        !.Honours = Part(data, 3), !.CareOf = Part(data, 4), !.PoBox = Part(data, 5),
        !.AddressLine1 = Part(data, 6), !.AddressLine2 = Part(data, 7),
        !.PostTown = Part(data, 8), !.County = Part(data, 9), !.Country = Part(data, 10),
        !.Occupation = Part(data, 11), !.Nationality = Part(data, 12),
        !.ResCountry = IF HasResCountry(data) THEN TrimSpace(data[14]) ELSE <<>>]

\* the Atoi error lost on the way to the return
LengthErrDropped(field) == NoErr

\* the named result err, set by `variableDataLength, err := strconv.Atoi(...)`
\* and returned as it is when the line is not repaired
LengthErr(field) == IF AtoiOK(field) THEN NoErr ELSE AtoiErr

\* `grown` is the spare capacity of the slice that append allocates for the
\* repaired line (zeroed memory); `prepends` counts the calls of personRow on
\* a repaired line
RECURSIVE personRow(_, _, _)
personRow(l, room, grown) ==
    IF ~personFixedOK(l, room)
    THEN [panic |-> TRUE, err |-> NoErr, p |-> ZeroPerson, prepends |-> 0]
    ELSE
    LET field == TrimSpace(Slice(l, room, 72, 76))
        variableDataLength == Atoi(field)
        p == personFixed(l, room)
    IN  IF ~AtoiOK(field) /\ LeadingZero(l) /\ SecondZero(l)
        THEN [panic |-> FALSE, p |-> p, prepends |-> 0,
              err |-> Wrap("error reading variable data length", AtoiErr)]
        ELSE IF ~AtoiOK(field) /\ LeadingZero(l)
        THEN LET r == personRow(Prepend(l), Zeros(grown), grown)
             IN  [r EXCEPT !.prepends = @ + 1]
        ELSE IF ~SliceOK(l, room, 76, 76 + variableDataLength)
        THEN [panic |-> TRUE, err |-> NoErr, p |-> ZeroPerson, prepends |-> 0]
        ELSE [panic |-> FALSE, prepends |-> 0,
              err |-> LengthErr(field),
              p |-> personVariable(p,
                        Split(Slice(l, room, 76, 76 + variableDataLength), "<"))]

\* ------------------------------------------------------------ Reader.line
\* the trailer count compared with the companies alone
CountDiffersFromCompanies(recordCount, ct, pt) == recordCount # ct

\* recordCount != *ct+*pt
CountDiffers(recordCount, ct, pt) == recordCount # ct + pt

\* *ct++ and *pt++
Incr(n) == n + 1

\* the error formatting the observed count in place of the declared one
MismatchErrObserved(recordCount, ct, pt) ==
    Err("unexpected number of records: %d", <<ct + pt>>)

\* fmt.Errorf("unexpected number of records: %d", recordCount)
MismatchErr(recordCount, ct, pt) == Err("unexpected number of records: %d", <<recordCount>>)

LineOut(panic, err, pt, ct, calls, rowPrepends) ==
    [panic |-> panic, err |-> err, pt |-> pt, ct |-> ct, calls |-> calls,
     prepends |-> 0, rowPrepends |-> rowPrepends]

\* the footer handler's invocation: Footer{RecordCount: recordCount}
FooterCall(recordCount) == <<[kind |-> "footer", arg |-> [RecordCount |-> recordCount]]>>

\* the comparison made ahead of the handler: a mismatch returns before the
\* footer handler is called
compareThenFooterHandler(recordCount, pt, ct, hOK) ==
    IF CountDiffers(recordCount, ct, pt)
    THEN LineOut(FALSE, MismatchErr(recordCount, ct, pt), pt, ct, <<>>, 0)
    ELSE IF ~hOK
    THEN LineOut(FALSE, Wrap("error processing footer handler", HandlerErr),
                 pt, ct, FooterCall(recordCount), 0)
    ELSE LineOut(FALSE, NoErr, pt, ct, FooterCall(recordCount), 0)

\* r.footerHandler(Footer{...}), its error returned at once; only then
\* `recordCount != *ct+*pt`
footerHandlerThenCompare(recordCount, pt, ct, hOK) ==
    IF ~hOK
    THEN LineOut(FALSE, Wrap("error processing footer handler", HandlerErr),
                 pt, ct, FooterCall(recordCount), 0)
    ELSE IF CountDiffers(recordCount, ct, pt)
    THEN LineOut(FALSE, MismatchErr(recordCount, ct, pt), pt, ct, FooterCall(recordCount), 0)
    ELSE LineOut(FALSE, NoErr, pt, ct, FooterCall(recordCount), 0)

\* Reader.line(line, i, pt, ct).  hOK: the handler this line reaches returns
\* nil.  The result carries the counters after the call, the handler
\* invocations made (kind and argument), and how often the line was repaired.
RECURSIVE line(_, _, _, _, _, _, _)
line(l, room, grown, i, pt, ct, hOK) ==
    IF i = 0 THEN
        LET r == headerRow(l, room)
        IN  IF r.panic THEN LineOut(TRUE, NoErr, pt, ct, <<>>, 0)
            ELSE IF r.err # NoErr
            THEN LineOut(FALSE, Wrap("error processing header row", r.err), pt, ct, <<>>, 0)
            ELSE LineOut(FALSE,
                         IF hOK THEN NoErr
                         ELSE Wrap("error processing header handler", HandlerErr),
                         pt, ct, <<[kind |-> "header", arg |-> r.h]>>, 0)
    ELSE IF ~SliceOK(l, room, 0, 8) THEN LineOut(TRUE, NoErr, pt, ct, <<>>, 0)
    ELSE IF Slice(l, room, 0, 8) = trailerRecordIdentifier THEN
        IF ~SliceOK(l, room, 8, 16) THEN LineOut(TRUE, NoErr, pt, ct, <<>>, 0)
        ELSE
        LET field == TrimSpace(Slice(l, room, 8, 16))
            recordCount == Atoi(field)
        IN  IF ~AtoiOK(field)
            THEN LineOut(FALSE, Wrap("error processing trailer record row", AtoiErr),
                         pt, ct, <<>>, 0)
            ELSE footerHandlerThenCompare(recordCount, pt, ct, hOK)
    ELSE IF ~IndexOK(l, 8) THEN LineOut(TRUE, NoErr, pt, ct, <<>>, 0)
    ELSE IF Index(l, 8) = companyRecordType THEN
        LET r == companyRow(l, room)
        IN  IF r.panic THEN LineOut(TRUE, NoErr, pt, ct, <<>>, 0)
            ELSE IF r.err # NoErr
            THEN LineOut(FALSE, Wrap("error processing Company row", r.err), pt, ct, <<>>, 0)
            ELSE LineOut(FALSE,
                         IF hOK THEN NoErr
                         ELSE Wrap("error processing Company handler", HandlerErr),
                         pt, Incr(ct), <<[kind |-> "company", arg |-> r.c]>>, 0)
    ELSE IF Index(l, 8) = personRecordType THEN
        LET r == personRow(l, room, grown)
        IN  IF r.panic THEN LineOut(TRUE, NoErr, pt, ct, <<>>, r.prepends)
            ELSE IF r.err # NoErr
            THEN LineOut(FALSE, Wrap("error processing Person row", r.err), pt, ct, <<>>,
                         r.prepends)
            ELSE LineOut(FALSE,
                         IF hOK THEN NoErr
                         ELSE Wrap("error processing Person handler", HandlerErr),
                         Incr(pt), ct, <<[kind |-> "person", arg |-> r.p]>>, r.prepends)
    ELSE IF LeadingZero(l) /\ SecondZero(l)
    THEN LineOut(FALSE, Err("unhandled record: %s", <<>>), pt, ct, <<>>, 0)
    ELSE IF LeadingZero(l)
    THEN LET r == line(Prepend(l), Zeros(grown), grown, i, pt, ct, hOK)
         IN  [r EXCEPT !.prepends = @ + 1]
    ELSE LineOut(FALSE, NoErr, pt, ct, <<>>, 0)

\* ------------------------------------------------------------ input
\* The lines an entry may hold, by number.
Lines ==
    <<HeaderLine, HeaderBadMarker, HeaderBadRun, HeaderBadDate, Footer0, Footer1, Footer2,
      Footer42, FooterBadCount, CompanyWest, CompanyReadme, CompanyNoZero, PersonReadme,
      ZeroThenUnknown, DoubleZero, ShortLine, PersonOverrun, CompanyOverrun, CompanyBadLength,
      CompanyZeroLength, EmptyLine, ShortTrailer, CompanyOne, PersonFull, Person14, Person13,
      Person3, PersonInvalidCharacter, PersonUnrepairable, PersonDoubleZeroBad, ZeroThenPerson,
      ZeroThenBadPerson>>

LineIds == 1..Len(Lines)

\* The lines the entries of an archive are drawn from when Extract runs.
EntryLines ==
    {HeaderLine, HeaderBadMarker, HeaderBadRun, HeaderBadDate, Footer0, Footer1, Footer2,
     Footer42, FooterBadCount, CompanyWest, CompanyReadme, CompanyNoZero, PersonReadme,
     ZeroThenUnknown, DoubleZero, ShortLine, PersonOverrun, CompanyBadLength}

EntryLineIds == {k \in LineIds : Lines[k] \in EntryLines}

\* What may follow a line within the capacity of the slice bufio.Scanner
\* hands out: nothing, or the newline and the next line of the buffer.
Rooms == {<<>>, <<"\n">> \o Footer1 \o <<"\n">>}

\* The spare capacity append may leave behind the repaired line.
Spares == {0, 8}

\* ------------------------------------------------------------ state
VARIABLES
    concurrency,        \* Extract's parameter: the number of workers
    entry,              \* the entry of z.File being processed, from 1
    pc,                 \* pc[0]: the goroutine in Extract; pc[w]: worker w
    ret,                \* what Extract returned: "none", "nil", "err", "panic"
    i,                  \* index of the line within the entry
    companiesProcessed,
    personsProcessed,
    lineChan,           \* the buffered channel of lines
    sends,              \* sends[w]: the doneChan sends worker w still makes
    cur,                \* cur[p]: the call of r.line that p is executing
    read,               \* lines scan.Scan() has returned in this entry
    passed,             \* passed[k]: calls of r.line for the k-th line read
    handled,            \* handler invocations in this entry, by kind
    sunk,               \* calls of errH in this entry
    archiveOpen,        \* the archive z is open: OpenReader succeeded, no Close yet
    openReaders,        \* the entry readers zf opened and not closed
    last                \* the latest call of r.line that returned: who ran it (by),
                        \* the line (id), i and the counters before it, its result,
                        \* whether the handler it called returned nil, what went to
                        \* errH, and the lines then queued or in progress

vars ==
    <<concurrency, entry, pc, ret, i, companiesProcessed, personsProcessed,
      lineChan, sends, cur, read, passed, handled, sunk, archiveOpen, openReaders, last>>

Workers == 1..concurrency

Procs == 0..concurrency

\* a line in flight: its number in Lines and its position in the entry
NoLine == [id |-> 0, idx |-> 0]

\* the circumstances of one call of r.line: the line, the room behind it,
\* the spare capacity append leaves, and whether the handler returns nil
Calls == [id : LineIds, room : Rooms, grown : Spares, hOK : BOOLEAN]

NoLast ==
    [by |-> 0, id |-> 0, i |-> 0, pt |-> 0, ct |-> 0,
     out |-> LineOut(FALSE, NoErr, 0, 0, <<>>, 0), hOK |-> TRUE, sunk |-> <<>>,
     inflight |-> 0]

NoneHandled == [header |-> 0, footer |-> 0, company |-> 0, person |-> 0]

\* cap(lineChan): make(chan []byte, concurrency*10)
LineChanCap == concurrency * 10

Init ==
    /\ concurrency \in 1..MaxConcurrency
    /\ entry = 0
    /\ pc = [p \in Procs |-> IF p = 0 THEN "openArchive" ELSE "idle"]
    /\ ret = "none"
    /\ i = 0
    /\ companiesProcessed = 0
    /\ personsProcessed = 0
    /\ lineChan = <<>>
    /\ sends = [w \in Workers |-> 0]
    /\ cur = [p \in Procs |-> NoLine]
    /\ read = 0
    /\ passed = <<>>
    /\ handled = NoneHandled
    /\ sunk = 0
    /\ archiveOpen = FALSE
    /\ openReaders = 0
    /\ last = NoLast

\* the loop `for _, f := range z.File` moves to the next entry of the open
\* archive, or the archive has no further entry and Extract returns nil: the
\* deferred z.Close() runs
NextEntry ==
    \E more \in {m \in BOOLEAN : m => entry < MaxEntries} :
        IF more
        THEN /\ entry' = entry + 1
             /\ pc' = [pc EXCEPT ![0] = "openEntry"]
             /\ ret' = ret
             /\ archiveOpen' = TRUE
        ELSE /\ entry' = entry
             /\ pc' = [pc EXCEPT ![0] = "returned"]
             /\ ret' = "nil"
             /\ archiveOpen' = FALSE

\* zip.OpenReader(path)
OpenArchive ==
    /\ pc[0] = "openArchive"
    /\ \E ok \in BOOLEAN :
          IF ok THEN NextEntry
          ELSE /\ pc' = [pc EXCEPT ![0] = "returned"]
               /\ ret' = "err"
               /\ entry' = entry
               /\ archiveOpen' = FALSE
    /\ UNCHANGED <<concurrency, i, companiesProcessed, personsProcessed, lineChan,
                   sends, cur, read, passed, handled, sunk, openReaders, last>>

\* f.Open(), the entry's variables and channels, and eg.Go(worker) for each
\* of the `concurrency` workers; when f.Open() fails Extract returns the error
\* and the deferred z.Close() runs
OpenEntry ==
    /\ pc[0] = "openEntry"
    /\ \E ok \in BOOLEAN :
          IF ok
          THEN /\ pc' = [p \in Procs |-> IF p = 0 THEN "scan" ELSE "select"]
               /\ ret' = ret
               /\ openReaders' = openReaders + 1
               /\ archiveOpen' = archiveOpen
          ELSE /\ pc' = [pc EXCEPT ![0] = "returned"]
               /\ ret' = "err"
               /\ openReaders' = openReaders
               /\ archiveOpen' = FALSE
    /\ i' = 0
    /\ companiesProcessed' = 0
    /\ personsProcessed' = 0
    /\ lineChan' = <<>>
    /\ sends' = [w \in Workers |-> 0]
    /\ cur' = [p \in Procs |-> NoLine]
    /\ read' = 0
    /\ passed' = <<>>
    /\ handled' = NoneHandled
    /\ sunk' = 0
    /\ last' = NoLast
    /\ UNCHANGED <<concurrency, entry>>

\* the scanning loop decoding the line and queueing it for the workers too
ScanLineAlsoEnqueues ==
    /\ pc[0] = "scan"
    /\ read < MaxLines
    /\ Len(lineChan) < LineChanCap
    /\ \E id \in EntryLineIds :
          /\ cur' = [cur EXCEPT ![0] = [id |-> id, idx |-> read + 1]]
          /\ lineChan' = Append(lineChan, [id |-> id, idx |-> read + 1])
    /\ pc' = [pc EXCEPT ![0] = "line"]
    /\ read' = read + 1
    /\ passed' = Append(passed, 1)
    /\ UNCHANGED <<concurrency, entry, ret, i, companiesProcessed, personsProcessed, sends,
                   handled, sunk, archiveOpen, openReaders, last>>

\* scan.Scan() returns true: the loop body calls r.line on the line itself
ScanLine ==
    /\ pc[0] = "scan"
    /\ read < MaxLines
    /\ \E id \in EntryLineIds : cur' = [cur EXCEPT ![0] = [id |-> id, idx |-> read + 1]]
    /\ pc' = [pc EXCEPT ![0] = "line"]
    /\ read' = read + 1
    /\ passed' = Append(passed, 1)
    /\ UNCHANGED <<concurrency, entry, ret, i, companiesProcessed, personsProcessed,
                   lineChan, sends, handled, sunk, archiveOpen, openReaders, last>>

\* scan.Scan() returns false: the entry is read; next is `doneChan <- true`
ScanEnd ==
    /\ pc[0] = "scan"
    /\ pc' = [pc EXCEPT ![0] = "done"]
    /\ UNCHANGED <<concurrency, entry, ret, i, companiesProcessed, personsProcessed,
                   lineChan, sends, cur, read, passed, handled, sunk, archiveOpen,
                   openReaders, last>>

Count(calls, kind) == Cardinality({k \in 1..Len(calls) : calls[k].kind = kind})

\* r.line returns to p: the counters it wrote, the handler it called, errH
\* on an error; then i++ in the scanning loop, or the worker's next select.
\* A panic of r.line unwinds Extract, whose deferred z.Close() runs; in a
\* worker it ends the program.
LineReturn(p) ==
    /\ pc[p] = "line"
    /\ \E c \in {x \in Calls : x.id = cur[p].id} :
       \E out \in {line(Lines[c.id], c.room, c.grown, i, personsProcessed,
                         companiesProcessed, c.hOK)} :
           /\ IF out.panic
              THEN /\ pc' = IF p = 0 THEN [pc EXCEPT ![0] = "panicked"]
                            ELSE [q \in Procs |-> "panicked"]
                   /\ ret' = "panic"
                   /\ i' = i
                   /\ archiveOpen' = IF p = 0 THEN FALSE ELSE archiveOpen
              ELSE /\ pc' = [pc EXCEPT ![p] = IF p = 0 THEN "scan" ELSE "select"]
                   /\ ret' = ret
                   /\ i' = IF p = 0 THEN i + 1 ELSE i
                   /\ archiveOpen' = archiveOpen
           /\ personsProcessed' = out.pt
           /\ companiesProcessed' = out.ct
           /\ handled' = [k \in DOMAIN handled |-> handled[k] + Count(out.calls, k)]
           /\ sunk' = IF out.panic \/ out.err = NoErr THEN sunk ELSE sunk + 1
           /\ last' = [by |-> p, id |-> c.id, i |-> i, pt |-> personsProcessed,
                       ct |-> companiesProcessed, out |-> out,
                       hOK |-> (out.calls = <<>> \/ c.hOK),
                       sunk |-> IF out.panic \/ out.err = NoErr THEN <<>>
                                ELSE <<Wrap("error: %w handling line: %s", out.err)>>,
                       inflight |-> Len(lineChan)
                                    + Cardinality({q \in Procs \ {p} : pc[q] = "line"})]
    /\ cur' = [cur EXCEPT ![p] = NoLine]
    /\ UNCHANGED <<concurrency, entry, lineChan, sends, read, passed, openReaders>>

\* the cases of the worker's select that can proceed: a sender blocked on
\* doneChan (the producer, or a worker passing the signal on), a line in lineChan
DoneSenders == {s \in Procs : (s = 0 /\ pc[0] = "done") \/ (s # 0 /\ pc[s] = "notify")}

SelectReady ==
    {[ch |-> "doneChan", from |-> s] : s \in DoneSenders}
        \cup (IF lineChan # <<>> THEN {[ch |-> "lineChan", from |-> 0]} ELSE {})

\* one pass of the worker's select
WorkerSelect(w) ==
    /\ pc[w] = "select"
    /\ \E c \in SelectReady :
          IF c.ch = "doneChan"
          THEN \* case <-doneChan: send `true` concurrency-1 times, then return
               LET s == c.from
                   left == IF s = 0 THEN 0 ELSE sends[s] - 1
               IN  /\ pc' = [q \in Procs |->
                               IF q = w THEN (IF concurrency - 1 = 0 THEN "exited" ELSE "notify")
                               ELSE IF q = s THEN (IF s = 0 THEN "wait"
                                                   ELSE IF left = 0 THEN "exited" ELSE "notify")
                               ELSE pc[q]]
                   /\ sends' = [v \in Workers |->
                                  IF v = w THEN concurrency - 1
                                  ELSE IF v = s THEN left ELSE sends[v]]
                   /\ UNCHANGED <<lineChan, cur, passed>>
          ELSE \* case line := <-lineChan: r.line(line, ...)
               /\ pc' = [pc EXCEPT ![w] = "line"]
               /\ cur' = [cur EXCEPT ![w] = Head(lineChan)]
               /\ lineChan' = Tail(lineChan)
               /\ passed' = [passed EXCEPT ![Head(lineChan).idx] = @ + 1]
               /\ sends' = sends
    /\ UNCHANGED <<concurrency, entry, ret, i, companiesProcessed, personsProcessed,
                   read, handled, sunk, archiveOpen, openReaders, last>>

\* eg.Wait() returns once every worker has returned
Wait ==
    /\ pc[0] = "wait"
    /\ \A w \in Workers : pc[w] = "exited"
    /\ NextEntry
    /\ UNCHANGED <<concurrency, i, companiesProcessed, personsProcessed, lineChan,
                   sends, cur, read, passed, handled, sunk, openReaders, last>>

Next ==
    \/ OpenArchive
    \/ OpenEntry
    \/ ScanLine
    \/ ScanEnd
    \/ \E p \in Procs : LineReturn(p)
    \/ \E w \in Workers : WorkerSelect(w)
    \/ Wait

Spec == Init /\ [][Next]_vars

\* ------------------------------------------------------------ r.line alone
\* r.line called on one line, as the tests call it: a reader with its
\* counters, at line i of an entry whose earlier lines were a Header and
\* records dispatched or passed over.
InitLine ==
    /\ concurrency = 1
    /\ entry = 1
    /\ pc = [p \in Procs |-> IF p = 0 THEN "scan" ELSE "select"]
    /\ ret = "none"
    /\ i \in 0..(MaxLines - 1)
    /\ companiesProcessed \in 0..MaxLines
    /\ personsProcessed \in 0..MaxLines
    /\ companiesProcessed + personsProcessed < IF i = 0 THEN 1 ELSE i
    /\ lineChan = <<>>
    /\ sends = [w \in Workers |-> 0]
    /\ cur = [p \in Procs |-> NoLine]
    /\ read = i
    /\ passed = [k \in 1..i |-> 1]
    /\ handled = [header |-> IF i = 0 THEN 0 ELSE 1, footer |-> 0,
                  company |-> companiesProcessed, person |-> personsProcessed]
    /\ sunk = 0
    /\ archiveOpen = TRUE
    /\ openReaders = 1
    /\ last = NoLast

\* r.line(line, i, &pt, &ct) on any of the lines
DecodeLine ==
    /\ pc[0] = "scan"
    /\ last = NoLast
    /\ \E id \in LineIds : cur' = [cur EXCEPT ![0] = [id |-> id, idx |-> read + 1]]
    /\ pc' = [pc EXCEPT ![0] = "line"]
    /\ read' = read + 1
    /\ passed' = Append(passed, 1)
    /\ UNCHANGED <<concurrency, entry, ret, i, companiesProcessed, personsProcessed,
                   lineChan, sends, handled, sunk, archiveOpen, openReaders, last>>

NextLine ==
    \/ DecodeLine
    \/ LineReturn(0)

LineSpec == InitLine /\ [][NextLine]_vars


\* ------------------------------------------------------------ properties
\* the latest call of r.line, when there is one in this entry
Returned == last.id # 0

LastLine == Lines[last.id]

LastErr == last.out.err

LastCalls == last.out.calls

IsFooterLine(l) == Len(l) >= 8 /\ SubSeq(l, 1, 8) = trailerRecordIdentifier

\* Extract is blocked on doneChan or in eg.Wait() and no goroutine can move
Stuck == pc[0] \in {"done", "wait"} /\ ~ENABLED Next

\* C1: once the producer has read the last line of the entry and signalled
\* completion, every worker exits and Extract returns; nothing stays
\* blocked on the line queue or the completion channel.
C1_WorkersExitAndExtractReturns == pc[0] \in {"done", "wait"} => ~Stuck

\* C2: every line read is passed to r.line exactly once, no two executions
\* of r.line overlap, and the counters add up to the Company and Person
\* handler invocations of the entry.
C2_ExactlyOnceNoOverlap ==
    /\ Len(passed) = read
    /\ \A k \in 1..Len(passed) : passed[k] = 1
    /\ Cardinality({p \in Procs : pc[p] = "line"}) <= 1
    /\ companiesProcessed + personsProcessed = handled.company + handled.person

C2_Witness ==
    /\ concurrency >= 2
    /\ pc[0] = "wait"
    /\ read >= 3
    /\ companiesProcessed >= 1
    /\ personsProcessed >= 1

\* a Footer whose count parsed and whose handler returned nil
FooterCompared ==
    /\ Returned /\ last.i >= 1 /\ last.hOK
    /\ Len(LastCalls) = 1 /\ LastCalls[1].kind = "footer"

LastRecordCount == LastCalls[1].arg.RecordCount

IsMismatch(e) == e.msg = <<"unexpected number of records: %d">>

\* C3: for a Footer whose count parses and whose handler succeeds, the
\* count-mismatch error is produced exactly when the declared count differs
\* from companiesProcessed + personsProcessed, and at the comparison no
\* earlier line of the entry is queued or in progress: the counters cover
\* every Company and Person record dispatched before the Footer.
C3_MismatchIffCountsDiffer ==
    FooterCompared =>
        /\ IsMismatch(LastErr) <=> LastRecordCount # last.ct + last.pt
        /\ ~IsMismatch(LastErr) => LastErr = NoErr
        /\ last.inflight = 0
        /\ last.ct + last.pt = handled.company + handled.person

C3_Witness ==
    /\ FooterCompared
    /\ concurrency >= 2
    /\ LastRecordCount = 1
    /\ handled.person = 1
    /\ LastErr = NoErr

\* C4 as claimed: the count-mismatch error carries the declared count and
\* the observed count.
C4_CarriesBothValues ==
    (FooterCompared /\ IsMismatch(LastErr)) =>
        LastErr.args = <<LastRecordCount, last.ct + last.pt>>

\* C4: the count-mismatch error carries the declared trailer count only,
\* and that is what reaches the error sink: a Footer declaring 42 after one
\* dispatched record yields an error carrying 42.
C4_CarriesDeclaredCount ==
    (FooterCompared /\ IsMismatch(LastErr)) =>
        /\ LastErr.args = <<LastRecordCount>>
        /\ LastRecordCount # last.ct + last.pt
        /\ Len(last.sunk) = 1
        /\ last.sunk[1].args = <<LastRecordCount>>

C4_Witness ==
    /\ FooterCompared /\ IsMismatch(LastErr)
    /\ LastLine = Footer42
    /\ last.ct + last.pt = 1

\* C5: a failure of a line at index >= 1 goes to the error sink exactly
\* once and stops nothing: the rest of the entry and the later entries are
\* processed and Extract returns nil.
C5_LineFailureStopsNothing ==
    (Returned /\ last.i >= 1 /\ LastErr # NoErr) =>
        /\ Len(last.sunk) = 1
        /\ ~Stuck
        /\ pc[0] # "panicked"
        /\ pc[0] = "returned" => ret = "nil"

HeaderFailed ==
    /\ Returned /\ last.i = 0
    /\ LastErr # NoErr /\ LastErr.msg[1] = "error processing header row"

\* C6: a Header decode failure on line 0 aborts the extraction at once:
\* Extract returns an error and reads no further line.
C6_HeaderFailureAborts == HeaderFailed => (pc[0] = "returned" /\ ret = "err")

\* C7: the producing loop only enqueues; r.line runs in the workers alone.
C7_ProducerOnlyEnqueues == \A p \in Procs : pc[p] = "line" => p \in Workers

\* a line that fails classification with a single leading zero
Unclassified(l) ==
    /\ Len(l) >= 9 /\ ~IsFooterLine(l)
    /\ l[9] \notin {companyRecordType, personRecordType}

SingleZero(l) == l[1] = "0" /\ l[2] # "0"

\* C8: a line at index >= 1 that is no Footer, has neither "1" nor "2" at
\* offset 8 and starts with a single "0" is retried once with a "0"
\* prepended; when the repaired line is a Company, as for the README line,
\* the company handler is invoked exactly once, companiesProcessed grows by
\* one, and with a handler that returns nil r.line returns no error.  A
\* repaired line that is still unclassified is reported as unhandled.
C8_RepairedCompanyDispatched ==
    (Returned /\ last.i >= 1 /\ Unclassified(LastLine) /\ SingleZero(LastLine)) =>
        /\ last.out.prepends = 1
        /\ Prepend(LastLine)[9] = companyRecordType =>
              /\ Len(LastCalls) = 1 /\ LastCalls[1].kind = "company"
              /\ last.out.ct = last.ct + 1 /\ last.out.pt = last.pt
              /\ last.hOK => LastErr = NoErr
        /\ Unclassified(Prepend(LastLine)) =>
              /\ LastErr.msg = <<"unhandled record: %s">>
              /\ LastCalls = <<>>
              /\ last.out.ct = last.ct /\ last.out.pt = last.pt
        /\ LastLine = CompanyReadme =>
              /\ LastCalls[1].arg.CompanyNumber = <<"0","0","4","6","3","8","1","9">>
              /\ LastCalls[1].arg.CompanyName = SubSeq(CompanyReadme, 40, 77)

C8_Witness ==
    /\ Returned /\ last.i >= 1 /\ LastLine = CompanyReadme
    /\ last.hOK /\ LastErr = NoErr
    /\ companiesProcessed = last.ct + 1

\* a Person line whose variable-length field is no integer
BadVariableLength(l) ==
    /\ Len(l) >= 76 /\ ~IsFooterLine(l) /\ l[9] = personRecordType
    /\ ~AtoiOK(TrimSpace(SubSeq(l, 73, 76)))

\* C9: a Person line at index >= 1 whose variable-length field is no
\* integer and that starts with a single "0" is decoded again once with a
\* "0" prepended; for the README line the person handler is invoked exactly
\* once with Forenames HANS and Surname KJAERSGAARD, personsProcessed grows
\* by one, and with a handler that returns nil r.line returns no error.
C9_RepairedPersonDispatched ==
    (Returned /\ last.i >= 1 /\ BadVariableLength(LastLine) /\ SingleZero(LastLine)) =>
        /\ last.out.rowPrepends = 1
        /\ last.out.prepends = 0
        /\ LastLine = PersonReadme =>
              /\ Len(LastCalls) = 1 /\ LastCalls[1].kind = "person"
              /\ LastCalls[1].arg.Forenames = <<"H","A","N","S">>
              /\ LastCalls[1].arg.Surname = <<"K","J","A","E","R","S","G","A","A","R","D">>
              /\ last.out.pt = last.pt + 1 /\ last.out.ct = last.ct
              /\ last.hOK => LastErr = NoErr

C9_Witness ==
    /\ Returned /\ last.i >= 1 /\ LastLine = PersonReadme
    /\ last.hOK /\ LastErr = NoErr
    /\ personsProcessed = last.pt + 1

DoubleLeadingZero(l) == l[1] = "0" /\ l[2] = "0"

\* C11: a line at index >= 1 that starts with "00" and fails classification
\* (no Footer, neither "1" nor "2" at offset 8) yields the unhandled-record
\* error, which goes to the error sink; it is not repaired, no handler is
\* invoked and both counters stay as they were.
C11_DoubleZeroUnhandled ==
    (Returned /\ last.i >= 1 /\ Unclassified(LastLine) /\ DoubleLeadingZero(LastLine)) =>
        /\ ~last.out.panic
        /\ LastErr.msg = <<"unhandled record: %s">>
        /\ last.out.prepends = 0
        /\ LastCalls = <<>>
        /\ last.out.ct = last.ct /\ last.out.pt = last.pt
        /\ Len(last.sunk) = 1
        /\ last.sunk[1].msg = <<"error: %w handling line: %s", "unhandled record: %s">>

C11_Witness ==
    /\ Returned /\ last.i >= 1 /\ LastLine = DoubleZero
    /\ sunk >= 1
    /\ companiesProcessed = last.ct /\ personsProcessed = last.pt
    /\ pc[0] = "scan"

\* C12: no line is silently dropped: for a line at index >= 1 of at least 9
\* bytes r.line invokes exactly one handler (footer, company or person) or
\* returns an error that reaches the error sink, and a line that fails
\* classification with a first byte other than "0" is reported as unhandled.
C12_NoLineSilentlyDropped ==
    (Returned /\ last.i >= 1 /\ Len(LastLine) >= 9) =>
        /\ \/ /\ Len(LastCalls) = 1
              /\ LastCalls[1].kind \in {"footer", "company", "person"}
           \/ /\ LastErr # NoErr
              /\ Len(last.sunk) = 1
        /\ (Unclassified(LastLine) /\ ~LeadingZero(LastLine)) =>
              LastErr.msg = <<"unhandled record: %s">>

\* a Person line that declares more variable data than it holds after offset 76
PersonOverruns(l) ==
    /\ Len(l) >= 76 /\ ~IsFooterLine(l) /\ l[9] = personRecordType
    /\ AtoiOK(TrimSpace(SubSeq(l, 73, 76)))
    /\ Atoi(TrimSpace(SubSeq(l, 73, 76))) > Len(l) - 76

\* C13: a Person line at index >= 1 whose declared variable-section length
\* exceeds the bytes that remain after offset 76 is reported with an error:
\* the person handler is not invoked, personsProcessed is unchanged, and the
\* extraction goes on with the next line without a crash.
C13_PersonOverrunReported ==
    (Returned /\ last.i >= 1 /\ PersonOverruns(LastLine)) =>
        /\ ~last.out.panic
        /\ pc[0] # "panicked"
        /\ LastErr # NoErr
        /\ Len(last.sunk) = 1
        /\ LastCalls = <<>>
        /\ last.out.pt = last.pt

\* the name-length field of a Company line, trimmed
NameLengthField(l) == TrimSpace(SubSeq(l, 37, 40))

\* a Company line, classified as it stands
IsCompanyLine(l) == Len(l) >= 40 /\ ~IsFooterLine(l) /\ l[9] = companyRecordType

\* C14: a Company line at index >= 1 whose declared name length L has
\* 40 + L > len(line) is decoded with CompanyName empty and no error, and
\* the record goes to the company handler and is counted once.
C14_CompanyOverrunDispatched ==
    (/\ Returned /\ last.i >= 1 /\ IsCompanyLine(LastLine)
     /\ AtoiOK(NameLengthField(LastLine))
     /\ 40 + Atoi(NameLengthField(LastLine)) > Len(LastLine)) =>
        /\ ~last.out.panic
        /\ Len(LastCalls) = 1 /\ LastCalls[1].kind = "company"
        /\ LastCalls[1].arg.CompanyName = <<>>
        /\ LastCalls[1].arg.CompanyNumber = TrimSpace(SubSeq(LastLine, 1, 8))
        /\ last.out.ct = last.ct + 1 /\ last.out.pt = last.pt
        /\ LastErr # NoErr => LastErr.msg[1] = "error processing Company handler"
        /\ last.hOK => (LastErr = NoErr /\ last.sunk = <<>>)

C14_Witness ==
    /\ Returned /\ last.i >= 1 /\ LastLine = CompanyOverrun
    /\ last.hOK /\ LastErr = NoErr
    /\ companiesProcessed = last.ct + 1
    /\ handled.company = last.ct + 1

\* C15: a Company line at index >= 1 of at least 40 bytes whose name-length
\* field is no integer is reported with the integer-parse error: the company
\* handler is not invoked, companiesProcessed is unchanged and the next line
\* is processed; nor does a name-length field of 0 crash the extraction.
C15_BadNameLengthReported ==
    (Returned /\ last.i >= 1 /\ IsCompanyLine(LastLine)) =>
        /\ ~AtoiOK(NameLengthField(LastLine)) =>
              /\ ~last.out.panic /\ pc[0] = "scan"
              /\ LastErr.msg = <<"error processing Company row", "error reading name length",
                                 "strconv.Atoi: invalid syntax">>
              /\ Len(last.sunk) = 1
              /\ LastCalls = <<>>
              /\ last.out.ct = last.ct
        /\ (AtoiOK(NameLengthField(LastLine)) /\ Atoi(NameLengthField(LastLine)) = 0) =>
              /\ ~last.out.panic /\ pc[0] = "scan"

\* C16: a line at index >= 1 shorter than 9 bytes, the empty line included,
\* produces an error that is delivered to the error sink; it is not skipped
\* in silence and it neither crashes nor aborts the processing of the lines
\* after it.
C16_ShortLineReported ==
    (Returned /\ last.i >= 1 /\ Len(LastLine) < 9) =>
        /\ ~last.out.panic /\ pc[0] = "scan"
        /\ LastErr # NoErr
        /\ Len(last.sunk) = 1

\* the declared name length of a Company line
NameLength(l) == Atoi(NameLengthField(l))

\* C17: for a Company line at index >= 1 with declared name length L >= 1
\* and at least 40 + L bytes, the CompanyName passed to the company handler
\* is the L-1 bytes at offsets 40..40+L-2, trimmed: the closing delimiter is
\* left out.  The field "0019" before "A. WEST & PARTNERS<" gives
\* "A. WEST & PARTNERS".
C17_CompanyNameDecoded ==
    (/\ Returned /\ last.i >= 1 /\ IsCompanyLine(LastLine)
     /\ AtoiOK(NameLengthField(LastLine))
     /\ NameLength(LastLine) >= 1
     /\ Len(LastLine) >= 40 + NameLength(LastLine)) =>
        /\ ~last.out.panic
        /\ Len(LastCalls) = 1 /\ LastCalls[1].kind = "company"
        /\ LastCalls[1].arg.CompanyName =
              TrimSpace(SubSeq(LastLine, 41, 40 + NameLength(LastLine) - 1))
        /\ LastLine = CompanyWest =>
              LastCalls[1].arg.CompanyName =
                  <<"A","."," ","W","E","S","T"," ","&"," ","P","A","R","T","N","E","R","S">>
        /\ LastLine = CompanyOne => LastCalls[1].arg.CompanyName = <<>>

C17_Witness ==
    /\ Returned /\ last.i >= 1 /\ LastLine = CompanyWest
    /\ NameLengthField(LastLine) = <<"0","0","1","9">>
    /\ Len(LastCalls) = 1 /\ Len(LastCalls[1].arg.CompanyName) = 18
    /\ handled.company = last.ct + 1

\* the declared length of the variable section of a Person line
VariableLength(l) == Atoi(TrimSpace(SubSeq(l, 73, 76)))

\* a Person line that is decoded as it stands: its length field is a
\* number and the variable section lies within the line
IsPersonLine(l) ==
    /\ Len(l) >= 76 /\ ~IsFooterLine(l) /\ l[9] = personRecordType
    /\ AtoiOK(TrimSpace(SubSeq(l, 73, 76)))
    /\ VariableLength(l) >= 0 /\ 76 + VariableLength(l) <= Len(l)

\* the parts of the variable section
VariableParts(l) == Split(SubSeq(l, 77, 76 + VariableLength(l)), "<")

\* the fields the first 13 parts go to, in order
PositionalFields ==
    <<"Title", "Forenames", "Surname", "Honours", "CareOf", "PoBox", "AddressLine1",
      "AddressLine2", "PostTown", "County", "Country", "Occupation", "Nationality">>

\* C18: for a Person line at index >= 1 whose variable section splits on
\* "<" into k parts, the parts 1..min(k,13) go, trimmed, to Title ..
\* Nationality in order, the missing ones are empty and no error arises, and
\* ResCountry is the trimmed 14th part exactly when k = 14: it is empty for
\* k <= 13 and for k >= 15, as for 14 subfields each closed by "<".
C18_VariablePartsMapped ==
    /\ (Returned /\ last.i >= 1 /\ IsPersonLine(LastLine)) =>
          /\ ~last.out.panic
          /\ Len(LastCalls) = 1 /\ LastCalls[1].kind = "person"
          /\ last.hOK => LastErr = NoErr
          /\ \A j \in 1..13 :
                LastCalls[1].arg[PositionalFields[j]] =
                    IF j <= Len(VariableParts(LastLine))
                    THEN TrimSpace(VariableParts(LastLine)[j]) ELSE <<>>
          /\ LastCalls[1].arg.ResCountry =
                IF Len(VariableParts(LastLine)) = 14
                THEN TrimSpace(VariableParts(LastLine)[14]) ELSE <<>>
          /\ LastLine = Person14 =>
                /\ LastCalls[1].arg.Nationality = <<"D","A","N","I","S","H">>
                /\ LastCalls[1].arg.ResCountry = <<"E","N","G","L","A","N","D">>
          /\ LastLine = Person13 =>
                /\ LastCalls[1].arg.Nationality = <<"D","A","N","I","S","H">>
                /\ LastCalls[1].arg.ResCountry = <<>>
          /\ LastLine = PersonFull =>
                /\ Len(VariableParts(LastLine)) = 15
                /\ LastCalls[1].arg.Nationality = <<"D","A","N","I","S","H">>
                /\ LastCalls[1].arg.ResCountry = <<>>
          /\ LastLine = Person3 =>
                /\ LastCalls[1].arg.Surname = <<"K","J","A","E","R","S","G","A","A","R","D">>
                /\ LastCalls[1].arg.Honours = <<>>
                /\ LastCalls[1].arg.Nationality = <<>>
                /\ LastCalls[1].arg.ResCountry = <<>>
    /\ (Returned /\ last.i >= 1 /\ LastLine = PersonReadme /\ Len(LastCalls) = 1) =>
          /\ LastCalls[1].arg.Nationality = <<"D","A","N","I","S","H">>
          /\ LastCalls[1].arg.ResCountry = <<>>

C18_Witness ==
    /\ Returned /\ last.i >= 1 /\ LastLine = Person14
    /\ Len(VariableParts(LastLine)) = 14
    /\ Len(LastCalls) = 1
    /\ LastCalls[1].arg.ResCountry = <<"E","N","G","L","A","N","D">>
    /\ handled.person = last.pt + 1

\* C19: a Person line at index >= 1 whose variable-length field is no
\* integer and whose first byte is not "0" is not repaired: r.line returns
\* the error of the Person row, the person handler is not invoked and
\* personsProcessed is unchanged.
C19_InvalidLengthIsError ==
    (Returned /\ last.i >= 1 /\ BadVariableLength(LastLine) /\ ~LeadingZero(LastLine)) =>
        /\ ~last.out.panic
        /\ last.out.rowPrepends = 0 /\ last.out.prepends = 0
        /\ LastErr.msg = <<"error processing Person row", "strconv.Atoi: invalid syntax">>
        /\ LastCalls = <<>>
        /\ last.out.pt = last.pt /\ last.out.ct = last.ct
        /\ Len(last.sunk) = 1

C19_Witness ==
    /\ Returned /\ last.i = 1 /\ LastLine = PersonInvalidCharacter
    /\ SubSeq(LastLine, 73, 76) = <<"4","0"," ","I">>
    /\ LastErr # NoErr
    /\ personsProcessed = 0 /\ handled.person = 0

\* C20: when Extract has returned, with nil or with an error, every entry
\* reader it opened has been released and the archive is closed.
C20_ResourcesReleased ==
    pc[0] = "returned" => (openReaders = 0 /\ ~archiveOpen)

\* C21: the repair ends after one prepend at each site: for any line
\* Reader.line calls itself at most once and personRow calls itself at most
\* once.  A repaired line starts with "00", so a second failure at the same
\* site returns an error: the unhandled record of Reader.line, the length
\* error of personRow.
C21_RepairAtMostOnce ==
    Returned =>
        /\ last.out.prepends <= 1 /\ last.out.rowPrepends <= 1
        /\ last.out.prepends + last.out.rowPrepends <= 1
        /\ last.out.prepends = 1 =>
              /\ LeadingZero(LastLine) /\ ~SecondZero(LastLine)
              /\ DoubleLeadingZero(Prepend(LastLine))
              /\ Unclassified(Prepend(LastLine)) =>
                    (LastErr.msg = <<"unhandled record: %s">> /\ LastCalls = <<>>)
              /\ BadVariableLength(Prepend(LastLine)) =>
                    /\ LastErr.msg = <<"error processing Person row",
                                       "error reading variable data length",
                                       "strconv.Atoi: invalid syntax">>
                    /\ LastCalls = <<>>
        /\ last.out.rowPrepends = 1 =>
              /\ LeadingZero(LastLine) /\ ~SecondZero(LastLine)
              /\ DoubleLeadingZero(Prepend(LastLine))
              /\ BadVariableLength(LastLine)
              /\ BadVariableLength(Prepend(LastLine)) =>
                    /\ LastErr.msg = <<"error processing Person row",
                                       "error reading variable data length",
                                       "strconv.Atoi: invalid syntax">>
                    /\ LastCalls = <<>>
        /\ (/\ last.i >= 1 /\ Len(LastLine) >= 76 /\ DoubleLeadingZero(LastLine)
            /\ BadVariableLength(LastLine)) =>
              (last.out.rowPrepends = 0 /\ LastErr # NoErr /\ LastCalls = <<>>)

\* personRow has failed a second time on its repaired line and returned the
\* error
C21_Witness ==
    /\ Returned /\ last.i >= 1 /\ LastLine = PersonUnrepairable
    /\ last.out.rowPrepends = 1 /\ last.out.prepends = 0
    /\ BadVariableLength(Prepend(LastLine))
    /\ LastErr # NoErr
    /\ pc[0] = "scan"

\* the latest call invoked the handler of `kind`
Dispatched(kind) == Len(LastCalls) = 1 /\ LastCalls[1].kind = kind

\* C22: a counter grows per successful dispatch: companiesProcessed (resp.
\* personsProcessed) grows by exactly one for a Company (resp. Person) line
\* that is decoded and whose handler returns no error, both counters stay as
\* they were for a line whose decoding fails or whose handler returns an
\* error, and a Header or Footer line changes neither.
C22_CountedPerSuccessfulDispatch ==
    Returned =>
        /\ (Dispatched("company") /\ LastErr = NoErr) =>
              (last.out.ct = last.ct + 1 /\ last.out.pt = last.pt)
        /\ (Dispatched("person") /\ LastErr = NoErr) =>
              (last.out.pt = last.pt + 1 /\ last.out.ct = last.ct)
        /\ LastErr # NoErr => (last.out.ct = last.ct /\ last.out.pt = last.pt)
        /\ (last.i = 0 \/ Dispatched("header") \/ Dispatched("footer")) =>
              (last.out.ct = last.ct /\ last.out.pt = last.pt)

\* the count field of a Footer line, trimmed
CountField(l) == TrimSpace(SubSeq(l, 9, 16))

\* C23: for a Footer line at index >= 1 whose count parses, the footer
\* handler is invoked exactly once with that count before the counts are
\* compared: it has been invoked when the comparison reports a mismatch, and
\* when the handler returns an error the comparison is not made, so that the
\* handler's error is returned whatever the counts are.
C23_FooterHandlerBeforeComparison ==
    (/\ Returned /\ last.i >= 1 /\ IsFooterLine(LastLine) /\ Len(LastLine) >= 16
     /\ AtoiOK(CountField(LastLine))) =>
        /\ ~last.out.panic
        /\ Dispatched("footer")
        /\ LastRecordCount = Atoi(CountField(LastLine))
        /\ ~last.hOK =>
              LastErr.msg = <<"error processing footer handler", "handler error">>
        /\ last.hOK =>
              /\ IsMismatch(LastErr) <=> LastRecordCount # last.ct + last.pt
              /\ ~IsMismatch(LastErr) => LastErr = NoErr
        /\ last.out.ct = last.ct /\ last.out.pt = last.pt

C23_Witness ==
    /\ Returned /\ last.i >= 1 /\ LastLine = Footer2
    /\ last.ct + last.pt = 1
    /\ IsMismatch(LastErr)
    /\ Dispatched("footer") /\ LastRecordCount = 2
    /\ handled.footer = 1

=============================================================================
